---- MODULE Spec2Model ----
(***************************************************************************)
(* Model of IOSFilesystemChecker (ios_triangulation_detector/__init__.py). *)
(*                                                                         *)
(* Strings are sequences of tokens: the separator "/" is one token and     *)
(* every name between separators is one token, so that replace, split,     *)
(* count and the substring test act on paths as the Python code does.      *)
(* Timestamps are integers (seconds).  A dict is a function whose DOMAIN   *)
(* is its key set; a list is a sequence.                                   *)
(***************************************************************************)
EXTENDS Integers, Sequences, FiniteSets, TLC

VARIABLES
    capture,            \* the artifact capture on disk (input of a scan)
    timeline,           \* self.timeline   : timestamp -> list of events
    detections,         \* self.detections : timestamp -> list of detections
    pc,                 \* position of the caller / of scan_filesystem
    expanded_timeline,  \* local of scan_filesystem
    i,                  \* local of scan_filesystem: next anchor index (0-based)
    event_window,       \* the window last handed to run_heuristics
    windows,            \* history: windows handed to run_heuristics by this scan
    appended,           \* history: (timestamp, item) of every append_timeline call
    results,            \* history: the registry returned by each finished scan
    before              \* history: the registry when run_heuristics was entered

vars == <<capture, timeline, detections, pc, expanded_timeline, i,
          event_window, windows, appended, results, before>>

(***************************************************************************)
(* Bounds of the model.                                                    *)
(***************************************************************************)
MaxAppends == 4     \* append_timeline calls explored by SpecTimeline
MaxStamp == 3       \* timestamps 1..MaxStamp used by SpecTimeline

(***************************************************************************)
(* Python string operations, on token sequences.                           *)
(***************************************************************************)
Slash == "/"

Min(S) == CHOOSE x \in S : \A y \in S : x <= y

\* s.find(sub) + 1 : the first position where sub occurs in s, 0 if none
Find(s, sub) ==
    LET hits == {k \in 1..(Len(s) - Len(sub) + 1) :
                    SubSeq(s, k, k + Len(sub) - 1) = sub}
    IN  IF hits = {} THEN 0 ELSE Min(hits)

\* sub in s
Contains(s, sub) == Find(s, sub) # 0

\* s.split(sep), sep not empty
RECURSIVE Split(_, _)
Split(s, sep) ==
    LET k == Find(s, sep)
    IN  IF k = 0 THEN <<s>>
        ELSE <<SubSeq(s, 1, k - 1)>> \o Split(SubSeq(s, k + Len(sep), Len(s)), sep)

\* sep.join(parts)
RECURSIVE Join(_, _)
Join(parts, sep) ==
    IF parts = <<>> THEN <<>>
    ELSE IF Len(parts) = 1 THEN parts[1]
    ELSE parts[1] \o sep \o Join(Tail(parts), sep)

\* s.replace(old, '')
Replace(s, old) == IF old = <<>> THEN s ELSE Join(Split(s, old), <<>>)

\* s.count(sep)
Count(s, sep) == Len(Split(s, sep)) - 1

\* s.lstrip('/')
RECURSIVE LStrip(_)
LStrip(s) == IF s # <<>> /\ Head(s) = Slash THEN LStrip(Tail(s)) ELSE s

\* os.path.join(a, b) for a relative b
OsPathJoin(a, b) ==
    IF a = <<>> THEN b
    ELSE IF a[Len(a)] = Slash THEN a \o b
    ELSE a \o <<Slash>> \o b

\* the path written with "/" between the given names
Path(names) == Join([k \in 1..Len(names) |-> <<names[k]>>], <<Slash>>)

(***************************************************************************)
(* append_map, append_timeline, append_detection                           *)
(***************************************************************************)
EmptyMap == <<>>

append_map_overwrite(timestamp, item, map) ==
    IF timestamp \notin DOMAIN map
    THEN map @@ (timestamp :> <<item>>)
    ELSE [map EXCEPT ![timestamp] = <<item>>]

append_map(timestamp, item, map) ==
    IF timestamp \notin DOMAIN map
    THEN map @@ (timestamp :> <<item>>)
    ELSE [map EXCEPT ![timestamp] = Append(@, item)]

append_timeline(timestamp, item, tl) == append_map(timestamp, item, tl)

append_detection(timestamp, item, dets) == append_map(timestamp, item, dets)

\* a sequence of append_timeline calls, each <<timestamp, item>>, in order
RECURSIVE AppendAllTimeline(_, _)
AppendAllTimeline(tl, calls) ==
    IF calls = <<>> THEN tl
    ELSE AppendAllTimeline(append_timeline(calls[1][1], calls[1][2], tl), Tail(calls))

RECURSIVE AppendAllDetections(_, _)
AppendAllDetections(dets, calls) ==
    IF calls = <<>> THEN dets
    ELSE AppendAllDetections(append_detection(calls[1][1], calls[1][2], dets), Tail(calls))

(***************************************************************************)
(* Events and detections.  An event is (type, detail); a detection is      *)
(* ('exact', source, identifier) or ('heuristics', window).                *)
(***************************************************************************)
Event(type, detail) == [type |-> type, detail |-> detail]

ExactDetection(source, identifier) ==
    [kind |-> "exact", source |-> source, id |-> identifier, window |-> <<>>]

HeuristicDetection(window) ==
    [kind |-> "heuristics", source |-> "", id |-> <<>>, window |-> window]

(***************************************************************************)
(* scan_filesystem, lines 96-100: the expanded timeline.                   *)
(***************************************************************************)
\* sorted(keys)
RECURSIVE Sorted(_)
Sorted(keys) ==
    IF keys = {} THEN <<>>
    ELSE LET m == Min(keys) IN <<m>> \o Sorted(keys \ {m})

RECURSIVE ExpandKeys(_, _)
ExpandKeys(tl, ks) ==
    IF ks = <<>> THEN <<>>
    ELSE [n \in 1..Len(tl[ks[1]]) |-> <<ks[1], tl[ks[1]][n]>>] \o ExpandKeys(tl, Tail(ks))

Expand(tl) == ExpandKeys(tl, Sorted(DOMAIN tl))

(***************************************************************************)
(* run_heuristics                                                          *)
(***************************************************************************)
AttachmentsMarker == <<"Library", Slash, "SMS", Slash, "Attachments", Slash>>

FileTypes == {"M", "C", "B"}
NetTypes == {"NetTimestamp", "NetUsage", "NetFirst", "NetTimestamp2"}

detection_threshold == 2

\* path.split('Library/SMS/Attachments/')[1].split('/')
path_parts(path) == Split(Split(path, AttachmentsMarker)[2], <<Slash>>)

\* line 47: len(path_parts) <= 2
IsContainerDepth(parts) == Len(parts) <= 2

\* lines 48-49: sms_attachment_directories[path][event_type] = True
TrackDirectory(dirs, path, event_type) ==
    IF path \in DOMAIN dirs
    THEN [dirs EXCEPT ![path] = @ \cup {event_type}]
    ELSE dirs @@ (path :> {event_type})

\* lines 37-57: the body of the loop for one event; returned marks line 51
ClassifyEvent_skip(st, event) ==
    IF event.type \in FileTypes
    THEN IF Contains(event.detail, AttachmentsMarker)
         THEN IF IsContainerDepth(path_parts(event.detail))
              THEN [st EXCEPT !.dirs = TrackDirectory(@, event.detail, event.type)]
              ELSE st
         ELSE [st EXCEPT !.classes = @ \cup {"file"}]
    ELSE IF event.type \in NetTypes
         THEN [st EXCEPT !.classes = @ \cup {"net"}]
    ELSE IF event.type = "LocationTimeStopped"
         THEN [st EXCEPT !.classes = @ \cup {"location"}]
    ELSE st

ClassifyEvent(st, event) ==
    IF event.type \in FileTypes
    THEN IF Contains(event.detail, AttachmentsMarker)
         THEN IF IsContainerDepth(path_parts(event.detail))
              THEN [st EXCEPT !.dirs = TrackDirectory(@, event.detail, event.type)]
              ELSE [st EXCEPT !.returned = TRUE]
         ELSE [st EXCEPT !.classes = @ \cup {"file"}]
    ELSE IF event.type \in NetTypes
         THEN [st EXCEPT !.classes = @ \cup {"net"}]
    ELSE IF event.type = "LocationTimeStopped"
         THEN [st EXCEPT !.classes = @ \cup {"location"}]
    ELSE st

\* lines 36-57: the loop, left at the first event that returns
RECURSIVE ClassifyFrom(_, _, _)
ClassifyFrom(window, j, st) ==
    IF j > Len(window) THEN st
    ELSE LET next == ClassifyEvent(st, window[j][2])
         IN  IF next.returned THEN next ELSE ClassifyFrom(window, j + 1, next)

Classify(window) ==
    ClassifyFrom(window, 1, [dirs |-> EmptyMap, classes |-> {}, returned |-> FALSE])

\* lines 60-62: every tracked directory has both an M and a C event
DirectoriesComplete_unchecked(dirs) == TRUE

DirectoriesComplete(dirs) ==
    \A k \in DOMAIN dirs : "M" \in dirs[k] /\ "C" \in dirs[k]

\* line 69: len(event_classes) >= detection_threshold
EnoughClasses_strict(event_classes) == Cardinality(event_classes) > detection_threshold

EnoughClasses(event_classes) == Cardinality(event_classes) >= detection_threshold

\* the registry after run_heuristics(event_window); event_window is not empty
run_heuristics(window, dets) ==
    LET timestamp_start == window[1][1]
        st == Classify(window)
    IN  IF st.returned THEN dets
        ELSE IF ~DirectoriesComplete(st.dirs) THEN dets
        ELSE LET event_classes ==
                    IF DOMAIN st.dirs # {} THEN st.classes \cup {"sms"} ELSE st.classes
             IN  IF EnoughClasses(event_classes)
                 THEN append_detection(timestamp_start, HeuristicDetection(window), dets)
                 ELSE dets

(***************************************************************************)
(* scan_filesystem, lines 102-116: the sliding window.                     *)
(***************************************************************************)
events_max == 10
time_delta_max == 300

\* line 105: range(len(expanded_timeline) - events_max)
AnchorCount_all(n) == n

AnchorCount(n) == n - events_max

\* seq[lo:hi] for 0 <= lo
Slice(seq, lo, hi) ==
    IF hi <= lo THEN <<>> ELSE SubSeq(seq, lo + 1, IF hi < Len(seq) THEN hi ELSE Len(seq))

\* lines 108-112: cut at the first event later than time_delta_max after the anchor
TrimWindow_early(window, timestamp_start) ==
    LET late == {j \in 1..Len(window) : window[j][1] - timestamp_start >= time_delta_max}
    IN  IF late = {} THEN window ELSE SubSeq(window, 1, Min(late) - 1)

TrimWindow(window, timestamp_start) ==
    LET late == {j \in 1..Len(window) : window[j][1] - timestamp_start > time_delta_max}
    IN  IF late = {} THEN window ELSE SubSeq(window, 1, Min(late) - 1)

\* lines 106-112: the window anchored at index n (0-based)
WindowAt(expanded, n) ==
    TrimWindow(Slice(expanded, n, n + events_max), expanded[n + 1][1])

\* lines 97-100
ExpandTimeline ==
    /\ pc = "expand"
    /\ expanded_timeline' = Expand(timeline)
    /\ i' = 0
    /\ windows' = <<>>
    /\ pc' = "windows"
    /\ UNCHANGED <<capture, timeline, detections, event_window, appended, results, before>>

\* lines 105-114: one iteration of the loop
SlideWindow ==
    /\ pc = "windows"
    /\ i < AnchorCount(Len(expanded_timeline))
    /\ LET window == WindowAt(expanded_timeline, i)
       IN  /\ event_window' = window
           /\ windows' = Append(windows, [anchor |-> i, window |-> window])
           /\ before' = detections
           /\ detections' = run_heuristics(window, detections)
    /\ i' = i + 1
    /\ UNCHANGED <<capture, timeline, pc, expanded_timeline, appended, results>>

\* line 116
ReturnDetections ==
    /\ pc = "windows"
    /\ ~(i < AnchorCount(Len(expanded_timeline)))
    /\ pc' = "done"
    /\ results' = Append(results, detections)
    /\ UNCHANGED <<capture, timeline, detections, expanded_timeline, i, event_window,
                   windows, appended, before>>

(***************************************************************************)
(* SpecTimeline: any sequence of append_timeline calls, then the expanded  *)
(* timeline of scan_filesystem.                                            *)
(***************************************************************************)
NoCapture == [root_path |-> <<>>]

TimelineItems == {Event("NetUsage", <<"nehelper">>), Event("LocationTimeStopped", <<"client">>)}

InitTimeline ==
    /\ capture = NoCapture
    /\ timeline = EmptyMap
    /\ detections = EmptyMap
    /\ pc = "expand"
    /\ expanded_timeline = <<>>
    /\ i = 0
    /\ event_window = <<>>
    /\ windows = <<>>
    /\ appended = <<>>
    /\ results = <<>>
    /\ before = EmptyMap

\* a collector calls append_timeline(timestamp, item)
AppendTimeline ==
    /\ pc = "expand"
    /\ Len(appended) < MaxAppends
    /\ \E timestamp \in 1..MaxStamp, item \in TimelineItems :
          /\ timeline' = append_timeline(timestamp, item, timeline)
          /\ appended' = Append(appended, <<timestamp, item>>)
    /\ UNCHANGED <<capture, detections, pc, expanded_timeline, i, event_window,
                   windows, results, before>>

NextTimeline == AppendTimeline \/ ExpandTimeline

SpecTimeline == InitTimeline /\ [][NextTimeline]_vars

(***************************************************************************)
(* SpecScan: scan_filesystem from line 96 on, over timelines the collectors *)
(* can have built: some events at each of four instants placed around the  *)
(* 300 s span, and a registry holding the exact detections found so far.   *)
(***************************************************************************)
MaxEvents == 12     \* events of a timeline explored by SpecScan

PlistPath == Path(<<"Preferences", "com.apple.ImageIO.plist">>)

ScanStamps == {0, time_delta_max, time_delta_max + 1, 2 * time_delta_max + 2}

\* the n-th event appended at one instant, for each mix of collectors
ScanEvent(mix, n) ==
    IF mix = "net" THEN Event("NetTimestamp", <<"nehelper">>)
    ELSE IF n % 3 = 1 THEN Event("NetTimestamp", <<"nehelper">>)
    ELSE IF n % 3 = 2 THEN Event("M", PlistPath)
    ELSE Event("LocationTimeStopped", <<"client">>)

RECURSIVE Sum(_, _)
Sum(f, S) == IF S = {} THEN 0 ELSE LET x == CHOOSE y \in S : TRUE IN f[x] + Sum(f, S \ {x})

ScanCounts == {c \in [ScanStamps -> 0..MaxEvents] : Sum(c, ScanStamps) <= MaxEvents}

ScanTimeline(c, mix) ==
    [t \in {u \in ScanStamps : c[u] > 0} |-> [n \in 1..c[t] |-> ScanEvent(mix, n)]]

BackupAgent == <<"BackupAgent">>

ExactFound == append_detection(time_delta_max, ExactDetection("NetUsage", BackupAgent), EmptyMap)

InitScan ==
    /\ capture = NoCapture
    /\ \E c \in ScanCounts, mix \in {"net", "mixed"} : timeline = ScanTimeline(c, mix)
    /\ detections \in {EmptyMap, ExactFound}
    /\ pc = "expand"
    /\ expanded_timeline = <<>>
    /\ i = 0
    /\ event_window = <<>>
    /\ windows = <<>>
    /\ appended = <<>>
    /\ results = <<>>
    /\ before = detections

NextScan == ExpandTimeline \/ SlideWindow \/ ReturnDetections

SpecScan == InitScan /\ [][NextScan]_vars

(***************************************************************************)
(* SpecHeur: one call of run_heuristics on a window of events.             *)
(***************************************************************************)
MaxWindow == 3      \* events of a window explored by SpecHeur

AttachmentsDir == Path(<<"private", "var", "mobile", "Library", "SMS", "Attachments">>)

ContainerPath == OsPathJoin(AttachmentsDir, Path(<<"ff", "15">>))
ShallowPath == OsPathJoin(AttachmentsDir, Path(<<"ff">>))
AttachmentFilePath == OsPathJoin(AttachmentsDir, Path(<<"ff", "15", "guid">>))

HeurEvents ==
    {Event(t, ContainerPath) : t \in FileTypes}
      \cup {Event("M", ShallowPath), Event("M", PlistPath), Event("B", AttachmentsDir),
            Event("C", AttachmentFilePath),
            Event("NetUsage", <<"nehelper">>), Event("LocationTimeStopped", <<"client">>)}

\* windows of n events, one second apart, the first at timestamp t
HeurWindows ==
    UNION {{[k \in 1..n |-> <<t + k - 1, es[k]>>] : es \in [1..n -> HeurEvents]} :
             n \in 1..MaxWindow, t \in {time_delta_max, time_delta_max + 1}}

InitHeur ==
    /\ capture = NoCapture
    /\ timeline = EmptyMap
    /\ detections \in {EmptyMap, ExactFound}
    /\ pc = "call"
    /\ expanded_timeline = <<>>
    /\ i = 0
    /\ event_window \in HeurWindows
    /\ windows = <<>>
    /\ appended = <<>>
    /\ results = <<>>
    /\ before = detections

\* checker.run_heuristics(event_window)
CallRunHeuristics ==
    /\ pc = "call"
    /\ detections' = run_heuristics(event_window, detections)
    /\ pc' = "returned"
    /\ UNCHANGED <<capture, timeline, expanded_timeline, i, event_window, windows,
                   appended, results, before>>

NextHeur == CallRunHeuristics

SpecHeur == InitHeur /\ [][NextHeur]_vars

(***************************************************************************)
(* The collectors of scan_filesystem.  Each yields the append_timeline and *)
(* append_detection calls it makes, in order, as <<timestamp, item>>.      *)
(* Artifacts that exist are readable and well formed.                      *)
(***************************************************************************)
cocoa_delta == 978307200

\* lines 77-85: self.paths
sms_attachments_dir(root_path) == OsPathJoin(root_path, AttachmentsDir)

PreferencesDir == Path(<<"private", "var", "mobile", "Library", "Preferences">>)

PlistKeys == <<"locationd_plist", "facetime_plist", "imageio_plist">>

PlistName(key) ==
    IF key = "locationd_plist" THEN "com.apple.locationd.StatusBarIconManager.plist"
    ELSE IF key = "facetime_plist" THEN "com.apple.imservice.ids.FaceTime.plist"
    ELSE "com.apple.ImageIO.plist"

plist_path(root_path, key) ==
    OsPathJoin(root_path, OsPathJoin(PreferencesDir, <<PlistName(key)>>))

\* lines 129-131 and 159-161: st_birthtime where the platform has it, else st_ctime
Birthtime(cap, stats) == IF cap.has_birthtime THEN stats.birthtime ELSE stats.ctime

\* lines 134-136 and 166-168
StatCalls(cap, stats, rel_path) ==
    << <<stats.mtime, Event("M", rel_path)>>,
       <<stats.ctime, Event("C", rel_path)>>,
       <<Birthtime(cap, stats), Event("B", rel_path)>> >>

\* the directory os.walk visits for the names below the attachments directory
WalkedRoot(cap, names) ==
    IF names = <<>> THEN sms_attachments_dir(cap.root_path)
    ELSE OsPathJoin(sms_attachments_dir(cap.root_path), Path(names))

\* line 122: root.replace(self.root_path, '').lstrip('/')
RelPath(cap, root) == LStrip(Replace(root, cap.root_path))

\* line 123: rel_path.count('/') >= 3
IsSkipped(rel_path) == Count(rel_path, <<Slash>>) >= 3

\* lines 121-136: _check_sms_attachments over the directories in walk order
RECURSIVE SmsAttachmentCalls(_, _)
SmsAttachmentCalls(cap, dirs) ==
    IF dirs = <<>> THEN <<>>
    ELSE LET rel_path == RelPath(cap, WalkedRoot(cap, dirs[1].names))
         IN  (IF IsSkipped(rel_path) THEN <<>> ELSE StatCalls(cap, dirs[1], rel_path))
               \o SmsAttachmentCalls(cap, Tail(dirs))

\* seq[-2:]
LastTwo(seq) == IF Len(seq) <= 2 THEN seq ELSE SubSeq(seq, Len(seq) - 1, Len(seq))

\* lines 163-164
PlistRelPath(cap, key) ==
    Join(LastTwo(Split(RelPath(cap, plist_path(cap.root_path, key)), <<Slash>>)), <<Slash>>)

\* lines 154-168: _check_system_plists
RECURSIVE SystemPlistCalls(_, _)
SystemPlistCalls(cap, keys) ==
    IF keys = <<>> THEN <<>>
    ELSE (IF keys[1] \in DOMAIN cap.plists
          THEN StatCalls(cap, cap.plists[keys[1]], PlistRelPath(cap, keys[1]))
          ELSE <<>>)
           \o SystemPlistCalls(cap, Tail(keys))

process_IOCs_exact == {BackupAgent}

process_IOCs_implicit ==
    {<<"nehelper">>, <<"com.apple.WebKit.WebContent">>,
     Path(<<"powerd", "com.apple.datausage.diagnostics">>),
     Path(<<"lockdownd", "com.apple.datausage.security">>)}

\* lines 187-189: the detections of the netUsageBaseline records
RECURSIVE BaselineDetectionCalls(_)
BaselineDetectionCalls(baseline) ==
    IF baseline = <<>> THEN <<>>
    ELSE (IF baseline[1].package \in process_IOCs_exact
          THEN << <<baseline[1].timestamp, ExactDetection("NetUsage", baseline[1].package)>> >>
          ELSE <<>>)
           \o BaselineDetectionCalls(Tail(baseline))

\* lines 187-191: the timeline events of the netUsageBaseline records
RECURSIVE BaselineTimelineCalls(_)
BaselineTimelineCalls(baseline) ==
    IF baseline = <<>> THEN <<>>
    ELSE (IF baseline[1].package \in process_IOCs_implicit
               \/ baseline[1].package \in process_IOCs_exact
          THEN << <<baseline[1].timestamp, Event("NetUsage", baseline[1].package)>> >>
          ELSE <<>>)
           \o BaselineTimelineCalls(Tail(baseline))

\* lines 215-218 and 220-223: the timestamps of a row with the event type of
\* each; timestamp is <<>> for NULL and <<t>> otherwise
RowStamps(row) ==
    << <<cocoa_delta + row.first_timestamp, "NetFirst">>,
       <<cocoa_delta + row.proc_timestamp, "NetTimestamp">> >>
      \o (IF row.timestamp # <<>>
          THEN << <<cocoa_delta + row.timestamp[1], "NetTimestamp2">> >>
          ELSE <<>>)

\* lines 209-218: the detections of the DataUsage.sqlite rows
RECURSIVE UsageDetectionCalls(_)
UsageDetectionCalls(rows) ==
    IF rows = <<>> THEN <<>>
    ELSE (IF rows[1].procname \in process_IOCs_exact
          THEN [n \in 1..Len(RowStamps(rows[1])) |->
                   <<RowStamps(rows[1])[n][1],
                     ExactDetection(RowStamps(rows[1])[n][2], rows[1].procname)>>]
          ELSE <<>>)
           \o UsageDetectionCalls(Tail(rows))

\* lines 209-223: the timeline events of the DataUsage.sqlite rows
RECURSIVE UsageTimelineCalls(_)
UsageTimelineCalls(rows) ==
    IF rows = <<>> THEN <<>>
    ELSE (IF rows[1].procname \in process_IOCs_exact THEN <<>>
          ELSE IF rows[1].procname \in process_IOCs_implicit
          THEN [n \in 1..Len(RowStamps(rows[1])) |->
                   <<RowStamps(rows[1])[n][1],
                     Event(RowStamps(rows[1])[n][2], rows[1].procname)>>]
          ELSE <<>>)
           \o UsageTimelineCalls(Tail(rows))

LocationBundles == Path(<<"com.apple.locationd.bundle-", "System", "Library", "LocationBundles">>)

location_client_IOCs ==
    {OsPathJoin(LocationBundles, <<"IonosphereHarvest.bundle">>),
     OsPathJoin(LocationBundles, <<"WRMLinkSelection.bundle">>)}

\* lines 242-245: the timeline events of the locationd clients; stopped is
\* <<>> when the item has no LocationTimeStopped
RECURSIVE LocationTimelineCalls(_)
LocationTimelineCalls(clients) ==
    IF clients = <<>> THEN <<>>
    ELSE (IF clients[1].package \in location_client_IOCs /\ clients[1].stopped # <<>>
          THEN << <<cocoa_delta + clients[1].stopped[1],
                    Event("LocationTimeStopped", clients[1].package)>> >>
          ELSE <<>>)
           \o LocationTimelineCalls(Tail(clients))

(***************************************************************************)
(* Spec: scans of a capture with one IOSFilesystemChecker.                 *)
(***************************************************************************)
MaxScans == 2       \* scan_filesystem calls on the one checker

\* an absolute and a relative mount point of the image
RootPaths == {<<Slash, "mnt", Slash, "img">>, <<"img">>}

Stats(m, c, b) == [mtime |-> cocoa_delta + m, ctime |-> cocoa_delta + c,
                   birthtime |-> cocoa_delta + b]

\* the attachments directory and the chain ff, ff/15, ff/15/guid below it, in
\* the order os.walk visits them; <<>> when the attachments directory is missing
WalkedDir(names) == [names |-> names] @@ Stats(Len(names) + 1, Len(names) + 2, 0)

DirTrees ==
    {<<>>,
     <<WalkedDir(<<>>)>>,
     <<WalkedDir(<<>>), WalkedDir(<<"ff">>), WalkedDir(<<"ff", "15">>)>>,
     <<WalkedDir(<<>>), WalkedDir(<<"ff">>), WalkedDir(<<"ff", "15">>),
       WalkedDir(<<"ff", "15", "guid">>)>>}

PlistSets ==
    {EmptyMap,
     [k \in {"imageio_plist"} |-> Stats(time_delta_max, time_delta_max, 0)],
     [k \in {"locationd_plist", "facetime_plist", "imageio_plist"} |->
         Stats(time_delta_max, time_delta_max + 1, 0)]}

BaselineRecord(package, t) == [package |-> package, timestamp |-> cocoa_delta + t]

Baselines ==
    {<<>>,
     <<BaselineRecord(BackupAgent, 0)>>,
     <<BaselineRecord(<<"nehelper">>, 1)>>,
     <<BaselineRecord(<<"Safari">>, 1)>>,
     <<BaselineRecord(<<"Safari">>, 0), BaselineRecord(BackupAgent, 1),
       BaselineRecord(<<"nehelper">>, 1)>>}

UsageRow(procname, first, proc, live) ==
    [procname |-> procname, first_timestamp |-> first, proc_timestamp |-> proc,
     timestamp |-> live]

UsageTables ==
    {<<>>,
     <<UsageRow(BackupAgent, 0, 1, <<2>>)>>,
     <<UsageRow(BackupAgent, 0, 1, <<>>)>>,
     <<UsageRow(<<"nehelper">>, 0, 1, <<time_delta_max>>)>>,
     <<UsageRow(<<"nehelper">>, 0, 1, <<>>), UsageRow(<<"Safari">>, 0, 1, <<2>>)>>}

ClientTables ==
    {<<>>,
     <<[package |-> OsPathJoin(LocationBundles, <<"IonosphereHarvest.bundle">>),
        stopped |-> <<2>>]>>,
     <<[package |-> OsPathJoin(LocationBundles, <<"WRMLinkSelection.bundle">>),
        stopped |-> <<>>],
       [package |-> <<"com.apple.Maps">>, stopped |-> <<2>>]>>}

Captures ==
    [root_path : RootPaths, has_birthtime : BOOLEAN, dirs : DirTrees, plists : PlistSets,
     baseline : Baselines, rows : UsageTables, clients : ClientTables]

\* lines 14-16: a new checker, and the capture it will scan
Init ==
    /\ capture \in Captures
    /\ timeline = EmptyMap
    /\ detections = EmptyMap
    /\ pc = "idle"
    /\ expanded_timeline = <<>>
    /\ i = 0
    /\ event_window = <<>>
    /\ windows = <<>>
    /\ appended = <<>>
    /\ results = <<>>
    /\ before = EmptyMap

CanScan == pc \in {"idle", "done"} /\ Len(results) < MaxScans

\* lines 74-89 when the attachments directory exists
ScanFilesystem ==
    /\ CanScan
    /\ capture.dirs # <<>>
    /\ pc' = "sms"
    /\ UNCHANGED <<capture, timeline, detections, expanded_timeline, i, event_window,
                   windows, appended, results, before>>

\* lines 74-89 when it does not: FileNotFoundError
ScanMissingDirectory ==
    /\ CanScan
    /\ capture.dirs = <<>>
    /\ pc' = "raised"
    /\ UNCHANGED <<capture, timeline, detections, expanded_timeline, i, event_window,
                   windows, appended, results, before>>

\* line 92
CheckSmsAttachments ==
    /\ pc = "sms"
    /\ LET calls == SmsAttachmentCalls(capture, capture.dirs)
       IN  /\ timeline' = AppendAllTimeline(timeline, calls)
           /\ appended' = appended \o calls
    /\ pc' = "plists"
    /\ UNCHANGED <<capture, detections, expanded_timeline, i, event_window, windows,
                   results, before>>

\* line 93
CheckSystemPlists ==
    /\ pc = "plists"
    /\ LET calls == SystemPlistCalls(capture, PlistKeys)
       IN  /\ timeline' = AppendAllTimeline(timeline, calls)
           /\ appended' = appended \o calls
    /\ pc' = "analytics"
    /\ UNCHANGED <<capture, detections, expanded_timeline, i, event_window, windows,
                   results, before>>

\* line 94
CheckAnalyticsData ==
    /\ pc = "analytics"
    /\ LET calls == BaselineTimelineCalls(capture.baseline)
                      \o UsageTimelineCalls(capture.rows)
                      \o LocationTimelineCalls(capture.clients)
       IN  /\ timeline' = AppendAllTimeline(timeline, calls)
           /\ appended' = appended \o calls
    /\ detections' = AppendAllDetections(detections,
                        BaselineDetectionCalls(capture.baseline)
                          \o UsageDetectionCalls(capture.rows))
    /\ before' = detections'
    /\ pc' = "expand"
    /\ UNCHANGED <<capture, expanded_timeline, i, event_window, windows, results>>

Next ==
    \/ ScanFilesystem
    \/ ScanMissingDirectory
    \/ CheckSmsAttachments
    \/ CheckSystemPlists
    \/ CheckAnalyticsData
    \/ ExpandTimeline
    \/ SlideWindow
    \/ ReturnDetections

Spec == Init /\ [][Next]_vars

(***************************************************************************)
(* Properties.                                                             *)
(***************************************************************************)
At(map, k) == IF k \in DOMAIN map THEN map[k] ELSE <<>>

EventsAt(seq, t) == SelectSeq(seq, LAMBDA p : p[1] = t)

StampsOf(seq) == {seq[k][1] : k \in 1..Len(seq)}

HeuristicsIn(dets) ==
    {<<k, n>> \in UNION {{k} \X (1..Len(dets[k])) : k \in DOMAIN dets} :
        dets[k][n].kind = "heuristics"}

\* C10: the expanded timeline holds every appended (timestamp, event) pair
\* exactly once, ascending by timestamp, events of one timestamp in the order
\* of their append_timeline calls; no call gives the empty sequence.
C10_OrderedTimeline ==
    pc = "windows" =>
        /\ Len(expanded_timeline) = Len(appended)
        /\ \A a, b \in 1..Len(expanded_timeline) :
              a < b => expanded_timeline[a][1] <= expanded_timeline[b][1]
        /\ \A t \in StampsOf(appended) \cup StampsOf(expanded_timeline) :
              EventsAt(expanded_timeline, t) = EventsAt(appended, t)
        /\ (appended = <<>> => expanded_timeline = <<>>)

C10_Witness ==
    /\ pc = "windows"
    /\ \E a, b, c \in 1..Len(appended) :
          /\ a < b /\ b < c
          /\ appended[a][1] = appended[c][1] /\ appended[a][2] # appended[c][2]
          /\ appended[b][1] < appended[a][1]

\* C1: a timeline of n >= events_max events is evaluated on one window for each
\* anchor 0 .. n - events_max, that is n - events_max + 1 windows.
C1_WindowPerAnchor ==
    (pc = "done" /\ Len(expanded_timeline) >= events_max) =>
        /\ Len(windows) = Len(expanded_timeline) - events_max + 1
        /\ \A a \in 0..(Len(expanded_timeline) - events_max) :
              \E n \in 1..Len(windows) : windows[n].anchor = a

\* C6: every window handed to run_heuristics is a prefix of the events_max
\* consecutive events at its anchor, holds 1..events_max events, keeps only
\* events at most time_delta_max after the anchor (one exactly time_delta_max
\* after it is kept), and when shortened stops right before a later event.
C6_WindowShape ==
    \A n \in 1..Len(windows) :
        LET a == windows[n].anchor
            w == windows[n].window
            start == expanded_timeline[a + 1][1]
        IN  /\ a + events_max <= Len(expanded_timeline)
            /\ Len(w) >= 1 /\ Len(w) <= events_max
            /\ w = SubSeq(expanded_timeline, a + 1, a + Len(w))
            /\ \A k \in 1..Len(w) : w[k][1] <= start + time_delta_max
            /\ \A k \in (a + 1)..(a + events_max) :
                  expanded_timeline[k][1] = start + time_delta_max
                     => k <= a + Len(w)
            /\ Len(w) < events_max =>
                  expanded_timeline[a + Len(w) + 1][1] > start + time_delta_max

C6_Witness ==
    \E n \in 1..Len(windows) :
        LET w == windows[n].window
        IN  /\ Len(w) > 1 /\ Len(w) < events_max
            /\ w[Len(w)][1] = w[1][1] + time_delta_max

ClassOfEvent(e) ==
    IF e.type \in NetTypes THEN "net"
    ELSE IF e.type = "LocationTimeStopped" THEN "location"
    ELSE "file"

\* C9: a timeline of fewer than events_max events is evaluated on no window
\* and gets no heuristic detection; the registry stays as the collectors left it.
C9_ShortTimeline ==
    (pc \in {"windows", "done"} /\ Len(expanded_timeline) < events_max) =>
        /\ windows = <<>>
        /\ HeuristicsIn(detections) = {}
        /\ detections = before

C9_Witness ==
    /\ pc = "done"
    /\ Len(expanded_timeline) = events_max - 1
    /\ detections = ExactFound
    /\ \E a, b \in 1..Len(expanded_timeline) :
          /\ ClassOfEvent(expanded_timeline[a][2]) # ClassOfEvent(expanded_timeline[b][2])
          /\ expanded_timeline[a][1] = expanded_timeline[b][1]

\* the path components that follow 'Library/SMS/Attachments/' in a path holding it
ComponentsAfterMarker(path) ==
    LET from == Find(path, AttachmentsMarker) + Len(AttachmentsMarker)
    IN  1 + Cardinality({k \in from..Len(path) : path[k] = Slash})

IsAttachmentEvent(e) == e.type \in FileTypes /\ Contains(e.detail, AttachmentsMarker)

IsAttachmentFile(e) == IsAttachmentEvent(e) /\ ComponentsAfterMarker(e.detail) > 2

IsContainer(e) == IsAttachmentEvent(e) /\ ComponentsAfterMarker(e.detail) <= 2

WindowEvents(w) == {w[k][2] : k \in 1..Len(w)}

\* a container path of the window with a Modified and no AttrChanged event
HasModifiedOnly(w) ==
    \E e \in WindowEvents(w) :
        /\ IsContainer(e) /\ e.type = "M"
        /\ Event("C", e.detail) \notin WindowEvents(w)

\* every container path of the window has a Modified and an AttrChanged event
ContainersComplete(w) ==
    \A e \in WindowEvents(w) :
        IsContainer(e) => {Event("M", e.detail), Event("C", e.detail)} \subseteq WindowEvents(w)

\* the classes among file, net, location present in a window
PlainClasses(w) ==
    {ClassOfEvent(e) : e \in {x \in WindowEvents(w) : ~IsAttachmentEvent(x)
                                 /\ x.type \in FileTypes \cup NetTypes \cup {"LocationTimeStopped"}}}

SmsClass(w) == IF \E e \in WindowEvents(w) : IsContainer(e) THEN {"sms"} ELSE {}

\* the registry `old` with one heuristic detection of window w added at its first timestamp
WithDetection(new, old, w) ==
    \A k \in DOMAIN new \cup DOMAIN old \cup {w[1][1]} :
        At(new, k) = At(old, k) \o (IF k = w[1][1] THEN <<HeuristicDetection(w)>> ELSE <<>>)

\* C3 as stated: a window with a container path that has Modified and no
\* AttrChanged (and no attachment-file event) still records a heuristic
\* detection when two of file, net, location are present.
C3_DetectsViaOtherClasses ==
    (pc = "returned" /\ HasModifiedOnly(event_window)
        /\ ~(\E e \in WindowEvents(event_window) : IsAttachmentFile(e))
        /\ Cardinality(PlainClasses(event_window)) >= 2)
      => WithDetection(detections, before, event_window)

\* C3 amended: a window with a container path that has Modified and no
\* AttrChanged records no detection, whatever other classes it holds.
C3_IncompleteContainerSuppresses ==
    (pc = "returned" /\ HasModifiedOnly(event_window)) => detections = before

C3_Witness ==
    /\ pc = "returned"
    /\ HasModifiedOnly(event_window)
    /\ ~(\E e \in WindowEvents(event_window) : IsAttachmentFile(e))
    /\ PlainClasses(event_window) = {"file", "net"}
    /\ detections = before

\* C4: a window holding a file event on a path with more than 2 components
\* after 'Library/SMS/Attachments/' records no detection: the registry is
\* the one run_heuristics was entered with.
C4_AttachmentFileDisqualifies ==
    (pc = "returned" /\ \E e \in WindowEvents(event_window) : IsAttachmentFile(e))
      => detections = before

C4_Witness ==
    /\ pc = "returned"
    /\ Len(event_window) = 3
    /\ IsAttachmentFile(event_window[3][2])
    /\ PlainClasses(event_window) = {"file", "net"}
    /\ detections = before
    /\ before # EmptyMap

\* C5: a window with no attachment-file event whose container paths all have
\* Modified and AttrChanged records exactly one heuristic detection, at its
\* first timestamp and with the window as evidence, when at least 2 of the
\* classes file, net, location, sms are present, and none otherwise.
C5_ThresholdRule ==
    (pc = "returned"
        /\ ~(\E e \in WindowEvents(event_window) : IsAttachmentFile(e))
        /\ ContainersComplete(event_window))
      => IF Cardinality(PlainClasses(event_window) \cup SmsClass(event_window)) >= 2
         THEN WithDetection(detections, before, event_window)
         ELSE detections = before

C5_Witness ==
    /\ pc = "returned"
    /\ PlainClasses(event_window) \cup SmsClass(event_window) = {"sms", "net"}
    /\ Len(At(detections, event_window[1][1])) = 2
    /\ detections[event_window[1][1]][2] = HeuristicDetection(event_window)

Occurrences(seq, x) == Cardinality({k \in 1..Len(seq) : seq[k] = x})

Items(map) == UNION {{map[k][n] : n \in 1..Len(map[k])} : k \in DOMAIN map}

Range(seq) == {seq[k] : k \in 1..Len(seq)}

\* the netUsageBaseline records and DataUsage rows of the capture, each as its
\* identifier and the Unix timestamps it carries
ArtifactRecords ==
    {[id |-> r.package, stamps |-> {r.timestamp}] : r \in Range(capture.baseline)}
      \cup {[id |-> r.procname,
             stamps |-> {cocoa_delta + r.first_timestamp, cocoa_delta + r.proc_timestamp}
                          \cup {cocoa_delta + t : t \in Range(r.timestamp)}] :
               r \in Range(capture.rows)}

HasExactAt(dets, t, id) == \E d \in Range(At(dets, t)) : d.kind = "exact" /\ d.id = id

HasEventAt(tl, t, id) == \E e \in Range(At(tl, t)) : e.type \in NetTypes /\ e.detail = id

\* C2: once the analytics artifacts are read, every record with an identifier
\* of the exact set has an Exact detection and a timeline event at each of its
\* timestamps; every record of the implicit set has the timeline events and
\* no detection; any other record has neither.
C2_ExactAndTimeline ==
    pc = "expand" =>
        \A r \in ArtifactRecords :
            IF r.id \in process_IOCs_exact
            THEN \A t \in r.stamps : HasExactAt(detections, t, r.id) /\ HasEventAt(timeline, t, r.id)
            ELSE IF r.id \in process_IOCs_implicit
            THEN /\ \A t \in r.stamps : HasEventAt(timeline, t, r.id)
                 /\ \A d \in Items(detections) : d.id # r.id
            ELSE /\ \A e \in Items(timeline) : e.detail # r.id
                 /\ \A d \in Items(detections) : d.id # r.id

\* C7: every scan starts from an empty timeline and an empty registry, and a
\* second scan of the same capture returns what the first returned.
C7_RepeatedScan ==
    /\ pc = "sms" => (timeline = EmptyMap /\ detections = EmptyMap)
    /\ Len(results) >= 2 => results[2] = results[1]

\* C8: after _check_sms_attachments every container directory one or two
\* levels below the attachments directory has exactly one M event at its
\* mtime, one C event at its ctime and one B event at its birth time, each
\* with the artifact-relative path, and every path has exactly three events.
C8_ContainerEvents ==
    (pc = "plists" /\ results = <<>>) =>
        /\ \A n \in 1..Len(capture.dirs) :
              LET d == capture.dirs[n]
                  rel == OsPathJoin(AttachmentsDir, Path(d.names))
              IN  Len(d.names) \in {1, 2} =>
                     /\ Occurrences(appended, <<d.mtime, Event("M", rel)>>) = 1
                     /\ Occurrences(appended, <<d.ctime, Event("C", rel)>>) = 1
                     /\ Occurrences(appended, <<Birthtime(capture, d), Event("B", rel)>>) = 1
        /\ Len(appended) = 3 * Cardinality({c[2].detail : c \in Range(appended)})

====
